---- MODULE Spec2Model ----
(***************************************************************************)
(* midiGPIO v0.2.2: four debounced inputs sending MIDI Note or Program     *)
(* Change messages on two transports (USB and serial MIDI), four outputs   *)
(* driven by inbound MIDI Note On / Note Off.                              *)
(*                                                                         *)
(* The state is the sketch's globals, the output pins, the millisecond     *)
(* counter and the two transports' buffers.  loop() is modelled statement  *)
(* group by statement group (pc), the environment (raw pin levels, mode    *)
(* pin, inbound messages, time) by nondeterministic choice.                *)
(***************************************************************************)
EXTENDS Integers, Sequences, FiniteSets, TLC

\* ------------------------------------------------------------------------
\* Bounds of the exploration (not program constants)
\* ------------------------------------------------------------------------
\* Real time explored after boot, in ms.
MaxElapsed == 21
\* Largest number of ms one loop iteration may take (delay(1) plus run time).
MaxDt == 2
\* Raw level changes the polls may observe, over all inputs.
MaxFlips == 2
\* Inbound MIDI messages the senders put on the two transports, in all.
MaxInbound == 2
\* Real time explored after boot where inbound traffic is explored, in ms.
MidiElapsed == 0
\* End of the pin-4 scenario, in ms.
ScenarioEnd == 18
\* Inbound MIDI messages in the pin-4 scenario.
ScenarioInbound == 2
\* ms between boot and the wrap of the millisecond counter, where the wrap
\* is explored.
WrapLead == 6
\* Messages a transport buffers, where the senders never stop.
QueueCap == 1

\* ------------------------------------------------------------------------
\* Configuration (lines 24-42)
\* ------------------------------------------------------------------------
NumChannels == 4
Channels == 0 .. (NumChannels - 1)

HIGH == TRUE
LOW == FALSE

\* A C array literal as a function on 0 .. NumChannels-1.
Arr(t) == [k \in Channels |-> t[k + 1]]

inputPins == Arr(<<2, 3, 4, 5>>)
outputPins == Arr(<<14, 15, 16, 17>>)
noteNumbers == Arr(<<60, 61, 62, 63>>)
programNumbers == Arr(<<0, 1, 2, 3>>)

MIDI_CHANNEL == 1
DEBOUNCE_MS == 10
INPUT_ACTIVE_HIGH == TRUE
NOTE_ON_VELOCITY == 110

\* unsigned long on the target (32-bit ARM) is 32 bits wide.  A value is kept
\* as two 16-bit halves <<high, low>>, so that all 32 bits are represented.
ULongBits == 32
HalfMod == 2 ^ (ULongBits \div 2)
ULong(n) == <<(n \div HalfMod) % HalfMod, n % HalfMod>>

OutputPinSet == {outputPins[k] : k \in Channels}

\* ------------------------------------------------------------------------
\* State
\* ------------------------------------------------------------------------
VARIABLES
  lastStableState,   \* bool lastStableState[4]
  lastReadState,     \* bool lastReadState[4]
  lastDebounceTime,  \* unsigned long lastDebounceTime[4]
  pinOut,            \* level driven on each output pin
  millis,            \* the millisecond counter, modulo 2^32
  serialIn,          \* messages buffered by the serial MIDI transport
  usbIn,             \* messages buffered by the USB MIDI transport
  usbOut,            \* messages sent on usbMIDI, in order
  serialOut,         \* messages sent on MIDI (Serial1), in order
  pc,                \* position in loop()
  i,                 \* loop()'s channel index
  now,               \* loop()'s local now
  programMode,       \* loop()'s local programMode
  call,              \* the send function being executed and its arguments
  \* history and environment bookkeeping
  elapsed,           \* real ms since boot (does not wrap)
  sampled,           \* level each input showed at its latest poll
  changedAt,         \* elapsed time of the poll that last saw that level change
  modeLevel,         \* level the mode pin showed when loop() last read it
  edges,             \* the confirmed edges, in order
  lastRx,            \* the latest inbound message handled, and the pins before it
  boot,              \* level each input showed when setup() read it
  everChanged,       \* the inputs a poll has seen at another level than before
  flipsLeft,         \* raw level changes still allowed
  inLeft,            \* inbound messages still allowed
  live,              \* the inputs whose raw level may change
  scen               \* which environment is explored

vars == <<lastStableState, lastReadState, lastDebounceTime, pinOut, millis,
          serialIn, usbIn, usbOut, serialOut, pc, i, now, programMode, call,
          elapsed, sampled, changedAt, modeLevel, edges, lastRx, boot,
          everChanged, flipsLeft, inLeft, live, scen>>

\* ------------------------------------------------------------------------
\* MIDI messages
\* ------------------------------------------------------------------------
Msg(t, d1, d2, ch) == [type |-> t, data1 |-> d1, data2 |-> d2, channel |-> ch]

NoCall == Msg("none", 0, 0, 0)
NoRx == [msg |-> NoCall, before |-> [p \in OutputPinSet |-> HIGH]]

\* ------------------------------------------------------------------------
\* Unsigned arithmetic
\* ------------------------------------------------------------------------
\* a - b on unsigned long: the difference modulo 2^32.
USub(a, b) ==
  LET low == a[2] - b[2]
      borrow == IF low < 0 THEN 1 ELSE 0
  IN <<(a[1] - b[1] - borrow + HalfMod) % HalfMod, (low + HalfMod) % HalfMod>>

\* a + d on unsigned long, d a number of ms below 2^16.
UAdd(a, d) ==
  LET low == a[2] + d
  IN <<(a[1] + (low \div HalfMod)) % HalfMod, low % HalfMod>>

\* a >= n on unsigned long, n below 2^16.
UGe(a, n) == a[1] > 0 \/ a[2] >= n

\* ------------------------------------------------------------------------
\* MIDI message processing (lines 204-261)
\* ------------------------------------------------------------------------
digitalWrite(out, pin, level) == [out EXCEPT ![pin] = level]

\* the for loop of lines 241-246 and 255-260: the first index k >= from
\* with noteNumbers[k] == note, NumChannels if there is none.
RECURSIVE FindNote_atMost(_, _)
\* the same loop with <= in place of == in lines 242 and 256.
FindNote_atMost(from, note) ==
  IF from >= NumChannels THEN NumChannels
  ELSE IF noteNumbers[from] <= note THEN from
  ELSE FindNote_atMost(from + 1, note)

RECURSIVE FindNote(_, _)
FindNote(from, note) ==
  IF from >= NumChannels THEN NumChannels
  ELSE IF noteNumbers[from] = note THEN from
  ELSE FindNote(from + 1, note)

\* lines 249-261 releasing every output when the note is a mapped one.
processNoteOff_allOff(out, channel, note, velocity) ==
  LET k == FindNote(0, note)
  IN IF k < NumChannels THEN [p \in OutputPinSet |-> HIGH] ELSE out

processNoteOff(out, channel, note, velocity) ==
  LET k == FindNote(0, note)
  IN IF k < NumChannels THEN digitalWrite(out, outputPins[k], HIGH) ELSE out

\* lines 226-247 driving the pin HIGH, as the comment of line 240 says.
processNoteOn_high(out, channel, note, velocity) ==
  IF velocity = 0 THEN processNoteOff(out, channel, note, velocity)
  ELSE LET k == FindNote(0, note)
       IN IF k < NumChannels THEN digitalWrite(out, outputPins[k], HIGH) ELSE out

\* lines 226-247 without the velocity test of lines 234-238.
processNoteOn_noZero(out, channel, note, velocity) ==
  LET k == FindNote(0, note)
  IN IF k < NumChannels THEN digitalWrite(out, outputPins[k], LOW) ELSE out

\* lines 226-247 with the return of line 230 in force.
processNoteOn_filtered(out, channel, note, velocity) ==
  IF channel # MIDI_CHANNEL THEN out
  ELSE IF velocity = 0 THEN processNoteOff(out, channel, note, velocity)
  ELSE LET k == FindNote(0, note)
       IN IF k < NumChannels THEN digitalWrite(out, outputPins[k], LOW) ELSE out

processNoteOn(out, channel, note, velocity) ==
  IF velocity = 0 THEN processNoteOff(out, channel, note, velocity)
  ELSE LET k == FindNote(0, note)
       IN IF k < NumChannels THEN digitalWrite(out, outputPins[k], LOW) ELSE out

handleNoteOn(out, channel, note, velocity) ==
  processNoteOn(out, channel, note, velocity)

handleNoteOff(out, channel, note, velocity) ==
  processNoteOff(out, channel, note, velocity)

\* read() of either transport hands one buffered message to the registered
\* handler; only Note On and Note Off have one (lines 91-96).
\* (A transport that itself reports a Note On of velocity 0 as a Note Off
\* calls handleNoteOff, which is what processNoteOn does with it.)
Dispatch(out, m) ==
  IF m.type = "NoteOn" THEN handleNoteOn(out, m.channel, m.data1, m.data2)
  ELSE IF m.type = "NoteOff" THEN handleNoteOff(out, m.channel, m.data1, m.data2)
  ELSE out

\* ------------------------------------------------------------------------
\* MIDI output functions (lines 177-202): the message handed to usbMIDI and
\* then to MIDI
\* ------------------------------------------------------------------------
sendMidiNoteOn(note, velocity, channel) == Msg("NoteOn", note, velocity, channel)

\* lines 186-193 sending the release as a Note On of velocity 0.
sendMidiNoteOff_asNoteOn(note, velocity, channel) ==
  Msg("NoteOn", note, velocity, channel)

sendMidiNoteOff(note, velocity, channel) == Msg("NoteOff", note, velocity, channel)

\* lines 195-202 with the program numbers 1..4 of the README.
sendMidiProgramChange_oneBased(program, channel) ==
  Msg("ProgramChange", program + 1, 0, channel)

sendMidiProgramChange(program, channel) == Msg("ProgramChange", program, 0, channel)

\* ------------------------------------------------------------------------
\* Debounce and edge mapping (lines 129-165)
\* ------------------------------------------------------------------------
\* line 136 with the subtraction of lastDebounceTime[i] forgotten.
DebounceElapsed_noSub(t, last) == UGe(t, DEBOUNCE_MS)

\* line 136 with > in place of >=.
DebounceElapsed_strict(t, last) == UGe(USub(t, last), DEBOUNCE_MS + 1)

\* line 136 as now >= lastDebounceTime[i] + DEBOUNCE_MS.
DebounceElapsed_sum(t, last) ==
  LET due == UAdd(last, DEBOUNCE_MS)
  IN t[1] > due[1] \/ (t[1] = due[1] /\ t[2] >= due[2])

\* line 136
DebounceElapsed(t, last) == UGe(USub(t, last), DEBOUNCE_MS)

\* line 121 for a switch that pulls the pin to GND when active (line 76).
ModeOf_low(level) == (level = LOW)

\* line 121: HIGH => program-change mode.
ModeOf(level) == (level = HIGH)

\* lines 140-145 with the test of line 141 inverted.
IsActive_low(reading) ==
  IF INPUT_ACTIVE_HIGH THEN reading = LOW ELSE reading = HIGH

\* lines 140-145
IsActive(reading) ==
  IF INPUT_ACTIVE_HIGH THEN reading = HIGH ELSE reading = LOW

\* lines 147-165 with the test of line 150 inverted.
EdgeAction_swapped(k, active, progMode) ==
  IF active
  THEN IF ~progMode
       THEN sendMidiProgramChange(programNumbers[k], MIDI_CHANNEL)
       ELSE sendMidiNoteOn(noteNumbers[k], NOTE_ON_VELOCITY, MIDI_CHANNEL)
  ELSE IF ~progMode
       THEN sendMidiNoteOff(noteNumbers[k], 0, MIDI_CHANNEL)
       ELSE NoCall

\* lines 147-165 without the test of line 159.
EdgeAction_offAlways(k, active, progMode) ==
  IF active
  THEN IF progMode
       THEN sendMidiProgramChange(programNumbers[k], MIDI_CHANNEL)
       ELSE sendMidiNoteOn(noteNumbers[k], NOTE_ON_VELOCITY, MIDI_CHANNEL)
  ELSE sendMidiNoteOff(noteNumbers[k], 0, MIDI_CHANNEL)

\* lines 147-165: the send a confirmed edge makes, NoCall for none.
EdgeAction(k, active, progMode) ==
  IF active
  THEN IF progMode
       THEN sendMidiProgramChange(programNumbers[k], MIDI_CHANNEL)
       ELSE sendMidiNoteOn(noteNumbers[k], NOTE_ON_VELOCITY, MIDI_CHANNEL)
  ELSE IF ~progMode
       THEN sendMidiNoteOff(noteNumbers[k], 0, MIDI_CHANNEL)
       ELSE NoCall

\* ------------------------------------------------------------------------
\* Environment
\* ------------------------------------------------------------------------
\* "poll": every input may change, within MaxFlips raw changes in all; a loop
\*         iteration takes half the debounce interval.
\* "fine": one input (any one) may change, within MaxFlips raw changes; a
\*         loop iteration takes 1 .. MaxDt ms.
\* "pin4": 1 ms polling; input pin 4 boots LOW, reads HIGH at t=0, LOW at
\*         t=3 and HIGH from t=6 on; the other inputs stay LOW; senders put
\*         up to ScenarioInbound messages on the transports.
\* "midi": the inputs are quiet; senders put up to MaxInbound messages on
\*         the two transports, at any point of loop().
\* "wrap": as "fine" for input 0, booting WrapLead ms before the millisecond
\*         counter wraps to 0.
\* "flood": input 0 may change; senders never stop: a message may arrive
\*         whenever a transport's buffer holds fewer than QueueCap.
\* "latch": input 0 boots LOW and may change once; the mode pin is HIGH for
\*         the first DEBOUNCE_MS ms and LOW from then on; a loop iteration
\*         takes half the debounce interval.
Scenarios == {"poll", "fine", "pin4", "midi", "wrap", "flood", "latch"}

\* Channel index of input pin 4.
Pin4Channel == CHOOSE k \in Channels : inputPins[k] = 4

Pin4Level(t) == IF t < 3 THEN HIGH ELSE IF t < 6 THEN LOW ELSE HIGH

\* Level of the mode pin in the "latch" scenario.
LatchMode(t) == IF t < DEBOUNCE_MS THEN HIGH ELSE LOW

\* Levels digitalRead(MODE_PIN) may return.
ModeLevels == IF scen = "latch" THEN {LatchMode(elapsed)} ELSE BOOLEAN

Horizon ==
  IF scen = "pin4" THEN ScenarioEnd
  ELSE IF scen = "midi" THEN MidiElapsed
  ELSE MaxElapsed

\* ms one loop iteration may take: delay(1) never returns before 1 ms.
Dts ==
  IF scen \in {"poll", "latch"} THEN {DEBOUNCE_MS \div 2}
  ELSE IF scen \in {"fine", "wrap"} THEN 1 .. MaxDt
  ELSE IF scen = "flood" THEN {DEBOUNCE_MS}
  ELSE {1}

\* Levels digitalRead(inputPins[k]) may return at this poll.
Readings(k) ==
  IF scen = "pin4" /\ k = Pin4Channel THEN {Pin4Level(elapsed)}
  ELSE IF k \in live /\ flipsLeft > 0 THEN BOOLEAN
  ELSE {sampled[k]}

\* Inbound messages a sender may put on a transport.  "midi", on the
\* configured channel: Note On with and without velocity and Note Off for the
\* first two mapped notes and for a note that is not mapped, Note On with
\* velocity and Note Off for the other two mapped notes; on another channel:
\* a Note On for a mapped note.  "flood": one Note On.  Elsewhere: a Note On
\* and a Note Off for a mapped note and a Note On for the note not mapped.
NoteKinds == {<<"NoteOn", 100>>, <<"NoteOn", 0>>, <<"NoteOff", 0>>}

InboundMsgs ==
  IF scen = "midi"
  THEN {Msg(t[1], n, t[2], MIDI_CHANNEL) : t \in NoteKinds, n \in {60, 61, 64}}
       \cup {Msg(t[1], n, t[2], MIDI_CHANNEL) :
               t \in NoteKinds \ {<<"NoteOn", 0>>}, n \in {62, 63}}
       \cup {Msg("NoteOn", 61, 100, 2)}
  ELSE IF scen = "flood" THEN {Msg("NoteOn", 61, 100, MIDI_CHANNEL)}
  ELSE {Msg("NoteOn", 61, 100, MIDI_CHANNEL), Msg("NoteOff", 61, 0, MIDI_CHANNEL),
        Msg("NoteOn", 64, 100, 2)}

\* Raw levels the inputs may show when setup() reads them.
BootLevels(s, lv) ==
  IF s = "poll" THEN [Channels -> BOOLEAN]
  ELSE IF s \in {"fine", "wrap"}
  THEN {lvl \in [Channels -> BOOLEAN] : \A k \in Channels \ lv : lvl[k] = LOW}
  ELSE {[k \in Channels |-> LOW]}

\* What millis() returns in setup().
BootTime(s) ==
  IF s = "wrap" THEN <<HalfMod - 1, HalfMod - WrapLead>> ELSE ULong(0)

\* ------------------------------------------------------------------------
\* setup() (lines 60-109)
\* ------------------------------------------------------------------------
\* setup() without line 71: lastStableState keeps its zero initialisation.
setup_noBaseline(levels, t0) ==
  /\ lastReadState = levels
  /\ lastStableState = [k \in Channels |-> LOW]
  /\ lastDebounceTime = [k \in Channels |-> t0]
  /\ pinOut = [p \in OutputPinSet |-> HIGH]
  /\ millis = t0
  /\ serialIn = <<>>
  /\ usbIn = <<>>
  /\ usbOut = <<>>
  /\ serialOut = <<>>
  /\ pc = "serialRead"
  /\ i = 0
  /\ now = ULong(0)
  /\ programMode = FALSE
  /\ call = NoCall
  /\ elapsed = 0
  /\ sampled = levels
  /\ changedAt = [k \in Channels |-> 0]
  /\ modeLevel = LOW
  /\ edges = <<>>
  /\ lastRx = NoRx
  /\ boot = levels
  /\ everChanged = {}

setup(levels, t0) ==
  /\ lastReadState = levels
  /\ lastStableState = levels
  /\ lastDebounceTime = [k \in Channels |-> t0]
  /\ pinOut = [p \in OutputPinSet |-> HIGH]
  /\ millis = t0
  /\ serialIn = <<>>
  /\ usbIn = <<>>
  /\ usbOut = <<>>
  /\ serialOut = <<>>
  /\ pc = "serialRead"
  /\ i = 0
  /\ now = ULong(0)
  /\ programMode = FALSE
  /\ call = NoCall
  /\ elapsed = 0
  /\ sampled = levels
  /\ changedAt = [k \in Channels |-> 0]
  /\ modeLevel = LOW
  /\ edges = <<>>
  /\ lastRx = NoRx
  /\ boot = levels
  /\ everChanged = {}

InitScen(s, lv, flips, inbound) ==
  /\ scen = s
  /\ live = lv
  /\ flipsLeft = flips
  /\ inLeft = inbound
  /\ \E levels \in BootLevels(s, lv) : setup(levels, BootTime(s))

Init ==
  \/ InitScen("poll", Channels, MaxFlips, 0)
  \/ \E k \in Channels : InitScen("fine", {k}, MaxFlips, 0)
  \/ InitScen("pin4", {Pin4Channel}, 0, ScenarioInbound)
  \/ InitScen("midi", {}, 0, MaxInbound)
  \/ InitScen("wrap", {0}, MaxFlips, 0)
  \/ InitScen("latch", {0}, 1, 0)

InitFlood == InitScen("flood", {0}, MaxFlips, 0)

\* ------------------------------------------------------------------------
\* loop() (lines 111-171)
\* ------------------------------------------------------------------------
envUnchanged ==
  UNCHANGED <<boot, everChanged, flipsLeft, inLeft, live, scen>>

\* line 113 with if in place of while: one message at most is read.
MidiRead_once ==
  /\ pc = "serialRead"
  /\ serialIn # <<>>
  /\ pinOut' = Dispatch(pinOut, Head(serialIn))
  /\ serialIn' = Tail(serialIn)
  /\ lastRx' = [msg |-> Head(serialIn), before |-> pinOut]
  /\ pc' = "usbRead"
  /\ UNCHANGED <<lastStableState, lastReadState, lastDebounceTime, millis,
                 usbIn, usbOut, serialOut, i, now, programMode, call,
                 elapsed, sampled, changedAt, modeLevel, edges>>
  /\ envUnchanged

\* line 113, a message is buffered: MIDI.read() calls its handler.
MidiRead ==
  /\ pc = "serialRead"
  /\ serialIn # <<>>
  /\ pinOut' = Dispatch(pinOut, Head(serialIn))
  /\ serialIn' = Tail(serialIn)
  /\ lastRx' = [msg |-> Head(serialIn), before |-> pinOut]
  /\ UNCHANGED <<lastStableState, lastReadState, lastDebounceTime, millis,
                 usbIn, usbOut, serialOut, pc, i, now, programMode, call,
                 elapsed, sampled, changedAt, modeLevel, edges>>
  /\ envUnchanged

\* line 113 with a read() that waits for a message.
MidiReadEmpty_block ==
  /\ pc = "serialRead"
  /\ serialIn = <<>>
  /\ UNCHANGED vars

\* line 113, nothing buffered: MIDI.read() returns false, the loop ends.
MidiReadEmpty ==
  /\ pc = "serialRead"
  /\ serialIn = <<>>
  /\ pc' = "usbRead"
  /\ UNCHANGED <<lastStableState, lastReadState, lastDebounceTime, pinOut,
                 millis, serialIn, usbIn, usbOut, serialOut, i, now,
                 programMode, call, elapsed, sampled, changedAt, modeLevel, edges, lastRx>>
  /\ envUnchanged

\* line 116, a message is buffered.
UsbRead ==
  /\ pc = "usbRead"
  /\ usbIn # <<>>
  /\ pinOut' = Dispatch(pinOut, Head(usbIn))
  /\ usbIn' = Tail(usbIn)
  /\ lastRx' = [msg |-> Head(usbIn), before |-> pinOut]
  /\ UNCHANGED <<lastStableState, lastReadState, lastDebounceTime, millis,
                 serialIn, usbOut, serialOut, pc, i, now, programMode, call,
                 elapsed, sampled, changedAt, modeLevel, edges>>
  /\ envUnchanged

\* line 116, nothing buffered.
UsbReadEmpty ==
  /\ pc = "usbRead"
  /\ usbIn = <<>>
  /\ pc' = "readMode"
  /\ UNCHANGED <<lastStableState, lastReadState, lastDebounceTime, pinOut,
                 millis, serialIn, usbIn, usbOut, serialOut, i, now,
                 programMode, call, elapsed, sampled, changedAt, modeLevel, edges, lastRx>>
  /\ envUnchanged

\* lines 121-125: sample the mode pin and the clock, start the for loop.
ReadMode ==
  /\ pc = "readMode"
  /\ \E level \in ModeLevels :
       /\ programMode' = ModeOf(level)
       /\ modeLevel' = level
  /\ now' = millis
  /\ i' = 0
  /\ pc' = "poll"
  /\ UNCHANGED <<lastStableState, lastReadState, lastDebounceTime, pinOut,
                 millis, serialIn, usbIn, usbOut, serialOut, call,
                 elapsed, sampled, changedAt, edges, lastRx>>
  /\ envUnchanged

\* Where the for loop goes after channel k: ++i and the test i < 4.
AfterChannel(k) == IF k + 1 < NumChannels THEN "poll" ELSE "delay"

\* lines 126-166 without the assignment of line 138.
PollInput_noCommit ==
  /\ pc = "poll"
  /\ i < NumChannels
  /\ \E reading \in Readings(i) :
       LET changed == reading # lastReadState[i]
           last == IF changed THEN now ELSE lastDebounceTime[i]
           confirmed == DebounceElapsed(now, last) /\ lastStableState[i] # reading
           active == IsActive(reading)
           todo == IF confirmed THEN EdgeAction(i, active, programMode) ELSE NoCall
           seen == reading # sampled[i]
           since == IF seen THEN elapsed ELSE changedAt[i]
       IN /\ lastDebounceTime' = [lastDebounceTime EXCEPT ![i] = last]
          /\ lastReadState' = [lastReadState EXCEPT ![i] = reading]
          /\ lastStableState' = lastStableState
          /\ call' = todo
          /\ IF todo # NoCall
             THEN pc' = "usbSend" /\ i' = i
             ELSE pc' = AfterChannel(i) /\ i' = i + 1
          /\ sampled' = [sampled EXCEPT ![i] = reading]
          /\ changedAt' = [changedAt EXCEPT ![i] = since]
          /\ everChanged' = IF seen THEN everChanged \cup {i} ELSE everChanged
          /\ flipsLeft' = IF seen /\ flipsLeft > 0 THEN flipsLeft - 1 ELSE flipsLeft
          /\ edges' =
               IF confirmed
               THEN Append(edges, [ch |-> i, level |-> reading, mode |-> modeLevel,
                                   at |-> elapsed, since |-> since,
                                   usbAt |-> Len(usbOut), serAt |-> Len(serialOut)])
               ELSE edges
  /\ UNCHANGED <<pinOut, millis, serialIn, usbIn, usbOut, serialOut, now,
                 programMode, elapsed, modeLevel, lastRx, boot, inLeft, live, scen>>

\* lines 126-166 for channel i, up to the call of a send function.
PollInput ==
  /\ pc = "poll"
  /\ i < NumChannels
  /\ \E reading \in Readings(i) :
       LET changed == reading # lastReadState[i]
           last == IF changed THEN now ELSE lastDebounceTime[i]
           confirmed == DebounceElapsed(now, last) /\ lastStableState[i] # reading
           active == IsActive(reading)
           todo == IF confirmed THEN EdgeAction(i, active, programMode) ELSE NoCall
           seen == reading # sampled[i]
           since == IF seen THEN elapsed ELSE changedAt[i]
       IN /\ lastDebounceTime' = [lastDebounceTime EXCEPT ![i] = last]
          /\ lastReadState' = [lastReadState EXCEPT ![i] = reading]
          /\ lastStableState' =
               IF confirmed THEN [lastStableState EXCEPT ![i] = reading]
               ELSE lastStableState
          /\ call' = todo
          /\ IF todo # NoCall
             THEN pc' = "usbSend" /\ i' = i
             ELSE pc' = AfterChannel(i) /\ i' = i + 1
          /\ sampled' = [sampled EXCEPT ![i] = reading]
          /\ changedAt' = [changedAt EXCEPT ![i] = since]
          /\ everChanged' = IF seen THEN everChanged \cup {i} ELSE everChanged
          /\ flipsLeft' = IF seen /\ flipsLeft > 0 THEN flipsLeft - 1 ELSE flipsLeft
          /\ edges' =
               IF confirmed
               THEN Append(edges, [ch |-> i, level |-> reading, mode |-> modeLevel,
                                   at |-> elapsed, since |-> since,
                                   usbAt |-> Len(usbOut), serAt |-> Len(serialOut)])
               ELSE edges
  /\ UNCHANGED <<pinOut, millis, serialIn, usbIn, usbOut, serialOut, now,
                 programMode, elapsed, modeLevel, lastRx, boot, inLeft, live, scen>>

\* lines 179, 188, 197: the send on usbMIDI.
SendUsb ==
  /\ pc = "usbSend"
  /\ usbOut' = Append(usbOut, call)
  /\ pc' = "serialSend"
  /\ UNCHANGED <<lastStableState, lastReadState, lastDebounceTime, pinOut,
                 millis, serialIn, usbIn, serialOut, i, now, programMode, call,
                 elapsed, sampled, changedAt, modeLevel, edges, lastRx>>
  /\ envUnchanged

\* a send function without the send on MIDI.
SendSerial_usbOnly ==
  /\ pc = "serialSend"
  /\ call' = NoCall
  /\ pc' = AfterChannel(i)
  /\ i' = i + 1
  /\ UNCHANGED <<lastStableState, lastReadState, lastDebounceTime, pinOut,
                 millis, serialIn, usbIn, usbOut, serialOut, now, programMode,
                 elapsed, sampled, changedAt, modeLevel, edges, lastRx>>
  /\ envUnchanged

\* a send function that passes velocity and note to MIDI in the other order.
SendSerial_swapped ==
  /\ pc = "serialSend"
  /\ serialOut' = Append(serialOut, [call EXCEPT !.data1 = call.data2,
                                                 !.data2 = call.data1])
  /\ call' = NoCall
  /\ pc' = AfterChannel(i)
  /\ i' = i + 1
  /\ UNCHANGED <<lastStableState, lastReadState, lastDebounceTime, pinOut,
                 millis, serialIn, usbIn, usbOut, now, programMode,
                 elapsed, sampled, changedAt, modeLevel, edges, lastRx>>
  /\ envUnchanged

\* lines 181, 190, 199: the send on MIDI, then the return into the for loop.
SendSerial ==
  /\ pc = "serialSend"
  /\ serialOut' = Append(serialOut, call)
  /\ call' = NoCall
  /\ pc' = AfterChannel(i)
  /\ i' = i + 1
  /\ UNCHANGED <<lastStableState, lastReadState, lastDebounceTime, pinOut,
                 millis, serialIn, usbIn, usbOut, now, programMode,
                 elapsed, sampled, changedAt, modeLevel, edges, lastRx>>
  /\ envUnchanged

\* line 170 and the return of loop(): its locals end, time has passed.
Delay ==
  /\ pc = "delay"
  /\ \E dt \in Dts :
       /\ elapsed + dt <= Horizon
       /\ millis' = UAdd(millis, dt)
       /\ elapsed' = elapsed + dt
  /\ pc' = "serialRead"
  /\ i' = 0
  /\ now' = ULong(0)
  /\ programMode' = FALSE
  /\ modeLevel' = LOW
  /\ UNCHANGED <<lastStableState, lastReadState, lastDebounceTime, pinOut,
                 serialIn, usbIn, usbOut, serialOut, call,
                 sampled, changedAt, edges, lastRx>>
  /\ envUnchanged

\* ------------------------------------------------------------------------
\* The transports' lower layer: a message arrives and is buffered, at any
\* point of loop().
\* ------------------------------------------------------------------------
SerialArrive ==
  /\ IF scen = "flood"
     THEN Len(serialIn) < QueueCap /\ inLeft' = inLeft
     ELSE inLeft > 0 /\ inLeft' = inLeft - 1
  /\ \E m \in InboundMsgs : serialIn' = Append(serialIn, m)
  /\ UNCHANGED <<lastStableState, lastReadState, lastDebounceTime, pinOut,
                 millis, usbIn, usbOut, serialOut, pc, i, now, programMode,
                 call, elapsed, sampled, changedAt, modeLevel, edges, lastRx,
                 boot, everChanged, flipsLeft, live, scen>>

UsbArrive ==
  /\ IF scen = "flood"
     THEN Len(usbIn) < QueueCap /\ inLeft' = inLeft
     ELSE inLeft > 0 /\ inLeft' = inLeft - 1
  /\ \E m \in InboundMsgs : usbIn' = Append(usbIn, m)
  /\ UNCHANGED <<lastStableState, lastReadState, lastDebounceTime, pinOut,
                 millis, serialIn, usbOut, serialOut, pc, i, now, programMode,
                 call, elapsed, sampled, changedAt, modeLevel, edges, lastRx,
                 boot, everChanged, flipsLeft, live, scen>>

Next ==
  \/ MidiRead
  \/ MidiReadEmpty
  \/ UsbRead
  \/ UsbReadEmpty
  \/ ReadMode
  \/ PollInput
  \/ SendUsb
  \/ SendSerial
  \/ Delay
  \/ SerialArrive
  \/ UsbArrive

Spec == Init /\ [][Next]_vars

\* The steps of loop(): the processor never stops executing it.
LoopStep ==
  \/ MidiRead
  \/ MidiReadEmpty
  \/ UsbRead
  \/ UsbReadEmpty
  \/ ReadMode
  \/ PollInput
  \/ SendUsb
  \/ SendSerial
  \/ Delay

\* loop() under senders that never stop.
SpecFlood == InitFlood /\ [][Next]_vars /\ WF_vars(LoopStep)

\* ------------------------------------------------------------------------
\* Properties
\* ------------------------------------------------------------------------
EdgeIdx == 1 .. Len(edges)

\* The sends of edge n are over.
EdgeDone(n) == n < Len(edges) \/ pc \notin {"usbSend", "serialSend"}

\* What was sent on usbMIDI, and on MIDI, from the confirmation of edge n to
\* the confirmation of the next edge.
UsbSent(n) ==
  SubSeq(usbOut, edges[n].usbAt + 1,
         IF n < Len(edges) THEN edges[n + 1].usbAt ELSE Len(usbOut))

SerialSent(n) ==
  SubSeq(serialOut, edges[n].serAt + 1,
         IF n < Len(edges) THEN edges[n + 1].serAt ELSE Len(serialOut))

\* Channel k has been polled in the current iteration of loop().
Polled(k) ==
  \/ pc = "poll" /\ i > k
  \/ pc \in {"usbSend", "serialSend"} /\ i >= k
  \/ pc = "delay"

\* C1. Debounce safety: an edge is confirmed, and a message sent, only in an
\* iteration at which the sampled level of that input has not changed for at
\* least DEBOUNCE_MS since the poll that last saw it change; nothing is sent
\* that is not the send of a confirmed edge.
C1_DebounceSafety ==
  /\ \A n \in EdgeIdx : edges[n].at - edges[n].since >= 10
  /\ Len(usbOut) <= Len(edges)
  /\ Len(serialOut) <= Len(edges)

\* An edge confirmed exactly 10 ms after the last of several raw changes.
C1_Witness ==
  \E n \in EdgeIdx :
    /\ edges[n].since > 0
    /\ edges[n].at - edges[n].since = 10
    /\ edges[n].ch = Pin4Channel
    /\ scen = "pin4"

\* C2. Debounce response: a raw change that stays is confirmed by exactly
\* one edge, in the first iteration whose timestamp is at least DEBOUNCE_MS
\* after the poll that saw the change, neither earlier nor later; in the
\* pin-4 scenario exactly one edge is confirmed, an activation at t = 16.
C2_DebounceResponse ==
  /\ \A k \in Channels :
       Polled(k) /\ elapsed - changedAt[k] >= 10 => lastStableState[k] = sampled[k]
  /\ \A n \in EdgeIdx : edges[n].at - edges[n].since >= 10
  /\ \A n, m \in EdgeIdx :
       n < m /\ edges[n].ch = edges[m].ch => edges[n].since < edges[m].since
  /\ scen = "pin4" =>
       /\ Len(edges) <= 1
       /\ \A n \in EdgeIdx :
            edges[n].ch = Pin4Channel /\ edges[n].level = HIGH /\ edges[n].at = 16
       /\ elapsed > 16 => Len(edges) = 1
       /\ Len(usbOut) <= 1 /\ Len(serialOut) <= 1

\* The pin-4 scenario after t = 16, the one edge confirmed.
C2_Witness ==
  /\ scen = "pin4"
  /\ elapsed = 17
  /\ Len(edges) = 1
  /\ lastStableState[Pin4Channel] = HIGH

C4_NoteOff ==
  \A n \in EdgeIdx :
    edges[n].level = LOW /\ edges[n].mode = LOW /\ EdgeDone(n) =>
      /\ UsbSent(n) = <<Msg("NoteOff", noteNumbers[edges[n].ch], 0, MIDI_CHANNEL)>>
      /\ SerialSent(n) = <<Msg("NoteOff", noteNumbers[edges[n].ch], 0, MIDI_CHANNEL)>>

C4_Witness ==
  \E n \in EdgeIdx :
    edges[n].level = LOW /\ edges[n].mode = LOW /\ EdgeDone(n) /\ Len(serialOut) > 0

C6_ReleaseSilent ==
  /\ \A n \in EdgeIdx :
       edges[n].level = LOW /\ edges[n].mode = HIGH =>
         UsbSent(n) = <<>> /\ SerialSent(n) = <<>>
  /\ \A n \in EdgeIdx :
       (\A m \in EdgeIdx : m > n => edges[m].ch # edges[n].ch) =>
         lastStableState[edges[n].ch] = edges[n].level

C6_Witness ==
  \E n \in EdgeIdx :
    /\ edges[n].level = LOW /\ edges[n].mode = HIGH
    /\ lastStableState[edges[n].ch] = LOW
    /\ pc = "delay"

\* ------------------------------------------------------------------------
\* Inbound side
\* ------------------------------------------------------------------------
OutputStates == [OutputPinSet -> BOOLEAN]

\* The message handled last was a Note On or a Note Off.
RxNote == lastRx.msg.type \in {"NoteOn", "NoteOff"}

\* A read() of this step hands a message to its handler.
Handles == MidiRead \/ UsbRead

\* Over every output state and every mapped note: Note On with a velocity
\* drives the note's pin LOW, Note Off after it drives it HIGH, and no other
\* pin changes.
RoundTripEverywhere ==
  \A s \in OutputStates, k \in Channels, v \in {1, 100, 127}, c \in 1 .. 16 :
    LET on == Dispatch(s, Msg("NoteOn", noteNumbers[k], v, c))
        off == Dispatch(on, Msg("NoteOff", noteNumbers[k], v, c))
    IN /\ on = [s EXCEPT ![outputPins[k]] = LOW]
       /\ off = [s EXCEPT ![outputPins[k]] = HIGH]

ZeroVelocityEverywhere ==
  \A s \in OutputStates, n \in 0 .. 127, c \in 1 .. 16 :
    Dispatch(s, Msg("NoteOn", n, 0, c)) = Dispatch(s, Msg("NoteOff", n, 0, c))

\* C8. An inbound Note On with velocity 0 leaves the output pins exactly as
\* an inbound Note Off for the same note leaves them (note 60: pin 14 HIGH).
C8_ZeroVelocity ==
  /\ lastRx.msg.type = "NoteOn" /\ lastRx.msg.data2 = 0 =>
       /\ pinOut = Dispatch(lastRx.before,
                            Msg("NoteOff", lastRx.msg.data1, 0, lastRx.msg.channel))
       /\ lastRx.msg.data1 = 60 => pinOut[14] = HIGH
  /\ ZeroVelocityEverywhere

\* Note On 61 with velocity 0 handled while pin 15 was LOW.
C8_Witness ==
  /\ lastRx.msg.type = "NoteOn"
  /\ lastRx.msg.data2 = 0
  /\ lastRx.msg.data1 = 61
  /\ lastRx.before[15] = LOW
  /\ pinOut[15] = HIGH

\* C9. Handling an inbound Note On or Note Off whose note is none of 60, 61,
\* 62, 63 changes no output pin, no debounce state and neither outbound
\* sequence, and loop() goes on where it was.
C9_UnmatchedNoOp ==
  [][Handles /\ lastRx'.msg.data1 \notin {60, 61, 62, 63} =>
       UNCHANGED <<pinOut, lastStableState, lastReadState, lastDebounceTime,
                   usbOut, serialOut, pc, i, call>>]_vars

\* Note 64 handled with an output active and the debounce of pin 4 under way.
C9_Witness ==
  /\ RxNote
  /\ lastRx.msg.data1 = 64
  /\ pinOut = lastRx.before
  /\ pinOut[15] = LOW
  /\ scen = "pin4"
  /\ lastReadState[Pin4Channel] # lastStableState[Pin4Channel]

\* Over every output state and Note message: the channel number does not
\* change the resulting output state.
ChannelBlindEverywhere ==
  \A s \in OutputStates, t \in {"NoteOn", "NoteOff"}, n \in 0 .. 127,
     v \in {0, 1, 127}, c \in 2 .. 16 :
    Dispatch(s, Msg(t, n, v, c)) = Dispatch(s, Msg(t, n, v, MIDI_CHANNEL))

SameIteration(n, m) == edges[n].at = edges[m].at

\* The confirmed edge n is one that sends a message.
HasMessage(n) == edges[n].level = HIGH \/ edges[n].mode = LOW

\* C11. Within one iteration the channels are polled in ascending order and
\* a channel confirms at most one edge and sends at most one message on each
\* transport; when channels i < j both confirm in the same iteration, the
\* message of i is out on usbMIDI and on MIDI before j is confirmed, so
\* before j's message goes out on either.
C11_PollOrder ==
  /\ pc \in {"poll", "usbSend", "serialSend"} => i \in Channels
  /\ \A n \in EdgeIdx :
       /\ Len(UsbSent(n)) <= 1 /\ Len(SerialSent(n)) <= 1
       /\ edges[n].at = elapsed => Polled(edges[n].ch)
  /\ \A n, m \in EdgeIdx :
       n < m /\ SameIteration(n, m) =>
         /\ edges[n].ch < edges[m].ch
         /\ HasMessage(n) =>
              /\ edges[m].usbAt >= edges[n].usbAt + 1
              /\ edges[m].serAt >= edges[n].serAt + 1
         /\ edges[m].usbAt = edges[m].serAt

\* Two channels confirmed in one iteration, both messages out.
C11_Witness ==
  \E n, m \in EdgeIdx :
    /\ n < m /\ SameIteration(n, m)
    /\ HasMessage(n) /\ HasMessage(m) /\ EdgeDone(m)
    /\ Len(usbOut) >= 2 /\ Len(serialOut) >= 2

\* C13. Every outbound message goes to both transports with the same
\* parameters, usbMIDI first: outside a send function the two logs are
\* equal; inside one, between the two sends, the usbMIDI log is the MIDI log
\* followed by the message being sent.
C13_FanOut ==
  /\ pc # "serialSend" => usbOut = serialOut
  /\ pc = "serialSend" => usbOut = Append(serialOut, call)
  /\ pc \in {"usbSend", "serialSend"} <=> call # NoCall
  /\ Len(serialOut) <= Len(usbOut) /\ Len(usbOut) <= Len(serialOut) + 1

\* Between the two sends of a second message.
C13_Witness ==
  /\ pc = "serialSend"
  /\ Len(usbOut) = 2
  /\ Len(serialOut) = 1
  /\ usbOut[1] = serialOut[1]

\* ------------------------------------------------------------------------
\* Order of the parts of loop()
\* ------------------------------------------------------------------------
\* C12. In every iteration the buffered inbound messages of MIDI and then
\* of usbMIDI are read and applied to the output pins, each transport until
\* its read() finds the buffer empty, before the mode pin is sampled, before
\* any input is polled and before any outbound message is sent; the polling
\* pass starts only after each drain has seen its buffer empty.
C12_DrainFirst ==
  [][/\ pc = "serialRead" /\ pc' # "serialRead" =>
          serialIn = <<>> /\ pc' = "usbRead"
     /\ pc = "usbRead" /\ pc' # "usbRead" =>
          usbIn = <<>> /\ pc' = "readMode"
     /\ pc = "readMode" /\ pc' # "readMode" => pc' = "poll"
     /\ pc' = "readMode" => pc \in {"usbRead", "readMode"}
     /\ pc' = "poll" => pc \in {"readMode", "poll", "serialSend"}
     /\ Len(serialIn') < Len(serialIn) =>
          /\ pc = "serialRead"
          /\ serialIn' = Tail(serialIn)
          /\ pinOut' = Dispatch(pinOut, Head(serialIn))
     /\ Len(usbIn') < Len(usbIn) =>
          /\ pc = "usbRead"
          /\ usbIn' = Tail(usbIn)
          /\ pinOut' = Dispatch(pinOut, Head(usbIn))
     /\ pinOut' # pinOut => pc \in {"serialRead", "usbRead"}
     /\ modeLevel' # modeLevel => pc \in {"readMode", "delay"}
     /\ sampled' # sampled \/ edges' # edges => pc = "poll"
     /\ usbOut' # usbOut => pc = "usbSend"
     /\ serialOut' # serialOut => pc = "serialSend"
    ]_vars

\* The polling pass starts after two buffered Note On, one on each
\* transport, have driven their pins.
C12_Witness ==
  /\ scen = "midi"
  /\ pc = "poll"
  /\ inLeft = 0
  /\ serialIn = <<>> /\ usbIn = <<>>
  /\ pinOut[14] = LOW /\ pinOut[15] = LOW

NextEdgeOf(n, m) ==
  /\ n < m
  /\ edges[n].ch = edges[m].ch
  /\ \A j \in EdgeIdx : n < j /\ j < m => edges[j].ch # edges[n].ch

\* C18. The confirmed edges of a channel alternate in direction; a channel
\* that confirms an edge in an iteration has its stable level equal to its
\* last read level, the level of the edge, for the rest of the iteration.
C18_EdgeAlternation ==
  /\ \A n, m \in EdgeIdx : NextEdgeOf(n, m) => edges[n].level # edges[m].level
  /\ \A n \in EdgeIdx :
       edges[n].at = elapsed =>
         /\ lastStableState[edges[n].ch] = edges[n].level
         /\ lastReadState[edges[n].ch] = edges[n].level
  /\ \A n \in EdgeIdx :
       (\A m \in EdgeIdx : m > n => edges[m].ch # edges[n].ch) =>
         lastStableState[edges[n].ch] = edges[n].level

\* A channel confirmed two edges, at the end of the iteration of the second.
C18_Witness ==
  \E n, m \in EdgeIdx :
    /\ NextEdgeOf(n, m)
    /\ edges[m].at = elapsed
    /\ pc = "delay"

\* ------------------------------------------------------------------------
\* The mode an edge is mapped with
\* ------------------------------------------------------------------------
\* What an edge of channel k to the given level sends on a transport when
\* the mode pin shows the given level.
ExpectedSends(k, level, mode) ==
  IF level = HIGH
  THEN IF mode = HIGH
       THEN <<Msg("ProgramChange", programNumbers[k], 0, MIDI_CHANNEL)>>
       ELSE <<Msg("NoteOn", noteNumbers[k], 110, MIDI_CHANNEL)>>
  ELSE IF mode = LOW
       THEN <<Msg("NoteOff", noteNumbers[k], 0, MIDI_CHANNEL)>>
       ELSE <<>>

\* C14. The mode an edge is mapped with is the level the mode pin showed
\* when it was sampled, after the drains, in the iteration that confirms the
\* edge, whatever it showed when the raw change was first seen; no sample is
\* carried from one iteration to the next.
C14_ModeAtConfirm ==
  /\ \A n \in EdgeIdx :
       /\ EdgeDone(n) =>
            /\ UsbSent(n) = ExpectedSends(edges[n].ch, edges[n].level, edges[n].mode)
            /\ SerialSent(n) = ExpectedSends(edges[n].ch, edges[n].level, edges[n].mode)
       /\ edges[n].at = elapsed => edges[n].mode = modeLevel
  /\ pc \in {"poll", "usbSend", "serialSend", "delay"} =>
       programMode = (modeLevel = HIGH)
  /\ pc \in {"serialRead", "usbRead", "readMode"} =>
       programMode = FALSE /\ modeLevel = LOW

\* The mode pin was HIGH in the iteration that first saw the press and LOW
\* in the one that confirmed it: a Note On went out.
C14_Witness ==
  /\ scen = "latch"
  /\ pc = "delay"
  /\ \E n \in EdgeIdx :
       /\ edges[n].at = elapsed
       /\ edges[n].level = HIGH
       /\ LatchMode(edges[n].since) = HIGH
       /\ edges[n].mode = LOW
       /\ UsbSent(n) = <<Msg("NoteOn", noteNumbers[edges[n].ch], 110, MIDI_CHANNEL)>>

\* ------------------------------------------------------------------------
\* The levels at boot
\* ------------------------------------------------------------------------
\* Message m is one that channel k sends.
ForChannel(m, k) ==
  \/ m.type \in {"NoteOn", "NoteOff"} /\ m.data1 = noteNumbers[k]
  \/ m.type = "ProgramChange" /\ m.data1 = programNumbers[k]

\* Edge n is the first confirmed edge of its channel.
FirstEdge(n) == \A j \in EdgeIdx : j < n => edges[j].ch # edges[n].ch

\* C17. setup() takes the raw level of each input as its stable and last
\* read level: an input that no poll sees at another level than at boot
\* confirms no edge and sends nothing, whatever that level; the first edge of
\* a channel is to the level opposite to its boot level.
C17_BootBaseline ==
  /\ elapsed = 0 /\ pc \in {"serialRead", "usbRead", "readMode"} =>
       lastStableState = boot /\ lastReadState = boot
  /\ \A k \in Channels \ everChanged :
       /\ lastStableState[k] = boot[k]
       /\ lastReadState[k] = boot[k]
       /\ \A n \in EdgeIdx : edges[n].ch # k
       /\ \A j \in 1 .. Len(usbOut) : ~ForChannel(usbOut[j], k)
       /\ \A j \in 1 .. Len(serialOut) : ~ForChannel(serialOut[j], k)
  /\ \A n \in EdgeIdx : FirstEdge(n) => edges[n].level # boot[edges[n].ch]

\* An input HIGH since boot has sent nothing after 20 ms, while another
\* input, HIGH at boot, confirmed its release.
C17_Witness ==
  \E k \in Channels, n \in EdgeIdx :
    /\ boot[k] = HIGH
    /\ k \notin everChanged
    /\ elapsed >= 20
    /\ boot[edges[n].ch] = HIGH
    /\ edges[n].level = LOW
    /\ FirstEdge(n)
    /\ EdgeDone(n)

\* ------------------------------------------------------------------------
\* Pairing of Note On and Note Off
\* ------------------------------------------------------------------------
\* m is a Note On or Note Off for the note of channel 0, 1, 2, 3.
IsNote0(m) == m.type \in {"NoteOn", "NoteOff"} /\ m.data1 = noteNumbers[0]
IsNote1(m) == m.type \in {"NoteOn", "NoteOff"} /\ m.data1 = noteNumbers[1]
IsNote2(m) == m.type \in {"NoteOn", "NoteOff"} /\ m.data1 = noteNumbers[2]
IsNote3(m) == m.type \in {"NoteOn", "NoteOff"} /\ m.data1 = noteNumbers[3]

\* The Note On and Note Off messages sent on usbMIDI for channel k's note.
NoteSeq(k) ==
  IF k = 0 THEN SelectSeq(usbOut, IsNote0)
  ELSE IF k = 1 THEN SelectSeq(usbOut, IsNote1)
  ELSE IF k = 2 THEN SelectSeq(usbOut, IsNote2)
  ELSE SelectSeq(usbOut, IsNote3)

\* Note On, Note Off, Note On, ...
Alternates(q) ==
  \A j \in 1 .. Len(q) : q[j].type = IF j % 2 = 1 THEN "NoteOn" ELSE "NoteOff"

\* Channel k is confirmed released and is not inside a send function.
Released(k) ==
  lastStableState[k] = LOW /\ ~(pc \in {"usbSend", "serialSend"} /\ i = k)

\* The Note messages of channel k pair up: they alternate from a Note On,
\* and none is left on once the channel is confirmed released.
Paired(k) ==
  /\ Alternates(NoteSeq(k))
  /\ Released(k) => Len(NoteSeq(k)) % 2 = 0

\* Every edge of channel k so far was confirmed with the mode pin LOW.
NoteModeOnly(k) == \A n \in EdgeIdx : edges[n].ch = k => edges[n].mode = LOW

\* C19 as stated: for every channel, whatever the input and mode-pin levels
\* were, the Note On and Note Off messages for its note alternate from a
\* Note On, and every Note On has its Note Off once the input is confirmed
\* released.
C19_NotePairing == \A k \in Channels : Paired(k)

\* C19. For a channel whose input was LOW at boot and whose edges were all
\* confirmed with the mode pin LOW, the Note On and Note Off messages for
\* its note alternate from a Note On, and every Note On has its Note Off
\* once the input is confirmed released.
C19_NotePairingInNoteMode ==
  \A k \in Channels : boot[k] = LOW /\ NoteModeOnly(k) => Paired(k)

\* A channel LOW at boot was pressed and released in note mode: Note On and
\* Note Off went out.
C19_Witness ==
  \E k \in Channels :
    /\ boot[k] = LOW
    /\ NoteModeOnly(k)
    /\ Len(NoteSeq(k)) = 2
    /\ Released(k)
    /\ pc = "delay"

\* ------------------------------------------------------------------------
\* The wrap of the millisecond counter
\* ------------------------------------------------------------------------
\* C20. The time since the last raw change is the difference of two
\* unsigned long values modulo 2^32: where the counter wraps between the
\* change and its confirmation, the edge is still confirmed in the first
\* iteration at least 10 ms of real time after the change, and in none
\* before.
C20_WrapAround ==
  scen = "wrap" =>
    /\ millis = UAdd(BootTime("wrap"), elapsed)
    /\ \A k \in Channels : lastDebounceTime[k] = UAdd(BootTime("wrap"), changedAt[k])
    /\ \A n \in EdgeIdx : edges[n].at >= edges[n].since + 10
    /\ \A k \in Channels :
         Polled(k) /\ elapsed >= changedAt[k] + 10 => lastStableState[k] = sampled[k]

\* A change seen before the wrap, confirmed exactly 10 ms later, after it.
C20_Witness ==
  /\ scen = "wrap"
  /\ millis[1] = 0
  /\ \E n \in EdgeIdx :
       /\ edges[n].at = elapsed
       /\ edges[n].since > 0
       /\ edges[n].since < WrapLead
       /\ edges[n].at = edges[n].since + 10
       /\ lastDebounceTime[edges[n].ch][1] = HalfMod - 1

\* ------------------------------------------------------------------------
\* Termination of the drains
\* ------------------------------------------------------------------------
\* A message arrives on one of the transports.
Arrival == SerialArrive \/ UsbArrive

\* Every iteration of loop() reaches the polling pass.
ReachesPoll == (pc = "serialRead") ~> (pc = "poll")

\* A raw change of input 0 that a poll saw early enough for a later
\* iteration to confirm it is settled: confirmed, or taken back by the input.
ChangeSettles ==
  (lastStableState[0] # sampled[0] /\ changedAt[0] + DEBOUNCE_MS <= MaxElapsed)
    ~> (lastStableState[0] = sampled[0])

====
